---- MODULE Spec2Model ----
(***************************************************************************)
(* Model of the RFID servo lock: the salted-hash authentication module     *)
(* (rfid_servo_lock/auth.py), the lock actuator (rfid_servo_lock/servo.py),*)
(* the card reader (rfid_servo_lock/rfid.py) and the control loop          *)
(* (rfid_servo_lock/main.py).                                              *)
(*                                                                         *)
(* Text is a sequence of one-character strings.  Python's None is the      *)
(* empty tuple.                                                            *)
(***************************************************************************)
EXTENDS Integers, Sequences, FiniteSets, TLC

VARIABLES
    pc,           \* main.run: line of main.py about to execute (0: not running)
    card_data,    \* main.run: result of the last rfid_reader.read_card()
    lcd,          \* the display: the two lines shown, backlight, pins held
    servo_lock,   \* the ServoLock: is_locked, pwm, last duty cycle applied
    gpio_open,    \* GPIO set up and GPIO.cleanup() not yet called?
    iter,         \* calls made by the current loop iteration, in order
    cleanup_log,  \* calls made by the finally block, in order
    exit_cause,   \* how the main loop was left: "none", "interrupt", "fault"
    pending,      \* exception in flight: "none", "KeyboardInterrupt", "Exception"
    empty_polls,  \* polls so far that returned no credential
    servo_at_poll,\* servo_lock as it was when the current iteration polled
    env_file,     \* the .env file
    enrolled,     \* enrollments so far, oldest first: <<card, password>>
    ret,          \* record of the last call into the authentication module
    calls,        \* calls made on a device object or rounds of write(), oldest first
    procs,        \* a save_password_to_env and a verify_card_password in progress
    grants_odd    \* main.run: has an odd number of credentials been granted so far?

vars == <<pc, card_data, lcd, servo_lock, gpio_open, iter, cleanup_log,
          exit_cause, pending, empty_polls, servo_at_poll, env_file, enrolled,
          ret, calls, procs, grants_odd>>

loopVars == <<pc, card_data, lcd, servo_lock, gpio_open, iter, cleanup_log,
              exit_cause, pending, empty_polls, servo_at_poll>>

None == <<>>

(***************************************************************************)
(* Bounds.                                                                 *)
(***************************************************************************)
MaxEnrollments == 2
MaxEmptyPolls == 2

(***************************************************************************)
(* Text.                                                                   *)
(***************************************************************************)
Whitespace == {" "}

RECURSIVE LStrip(_)
LStrip(s) == IF s # <<>> /\ Head(s) \in Whitespace THEN LStrip(Tail(s)) ELSE s

RECURSIVE RStrip(_)
RStrip(s) ==
    IF s # <<>> /\ s[Len(s)] \in Whitespace
    THEN RStrip(SubSeq(s, 1, Len(s) - 1))
    ELSE s

\* str.strip()
Strip(s) == RStrip(LStrip(s))

\* str.encode() followed by hex rendering of one character
HexOf(c) ==
    CASE c = " " -> <<"2", "0">>
      [] c = "1" -> <<"3", "1">>
      [] c = "2" -> <<"3", "2">>
      [] c = "a" -> <<"6", "1">>
      [] c = "b" -> <<"6", "2">>

HexDigits == {"0", "1", "2", "3", "6"}

\* hashlib.sha256(text.encode()).hexdigest(), idealised as collision free:
\* the digest is an injective hex rendering of the hashed bytes.
RECURSIVE Sha256Hex(_)
Sha256Hex(text) ==
    IF text = <<>> THEN <<>> ELSE HexOf(Head(text)) \o Sha256Hex(Tail(text))

Digit(d) ==
    CASE d = 0 -> "0" [] d = 1 -> "1" [] d = 2 -> "2" [] d = 3 -> "3"
      [] d = 4 -> "4" [] d = 5 -> "5" [] d = 6 -> "6" [] d = 7 -> "7"
      [] d = 8 -> "8" [] d = 9 -> "9"

\* str(card_id): the card identifier as a decimal string
RECURSIVE DecStr(_)
DecStr(n) == IF n < 10 THEN <<Digit(n)>> ELSE DecStr(n \div 10) \o <<Digit(n % 10)>>

(***************************************************************************)
(* auth.py                                                                 *)
(***************************************************************************)
\* secrets.token_hex(32): the values generate_salt() may return
generate_salt == {<<"1", "2">>, <<"2", "1">>}

hash_password_nosalt(password, salt) == <<Sha256Hex(password), salt>>

\* hash_password(password, salt) with salt given; returns (hash, salt)
hash_password(password, salt) == <<Sha256Hex(password \o salt), salt>>

verify_password_prefix(password, stored_hash, stored_salt) ==
    LET test_hash == hash_password(password, stored_salt)[1]
    IN  /\ Len(test_hash) = Len(stored_hash)
        /\ SubSeq(test_hash, 1, 2) = SubSeq(stored_hash, 1, 2)

\* secrets.compare_digest(test_hash, stored_hash)
verify_password(password, stored_hash, stored_salt) ==
    LET test_hash == hash_password(password, stored_salt)[1]
    IN  test_hash = stored_hash

(***************************************************************************)
(* The .env file.  A line is <<key, value>>: "#" is a comment line, "" a   *)
(* blank line, any other key a KEY=VALUE line.                             *)
(***************************************************************************)
HASH == "RFID_PASSWORD_HASH"
SALT == "RFID_PASSWORD_SALT"

Comment == <<"#", <<>>>>
Blank == <<"", <<>>>>

Absent == [exists |-> FALSE, readable |-> FALSE, lines |-> <<>>]
Unreadable == [exists |-> TRUE, readable |-> FALSE, lines |-> <<>>]
File(lines) == [exists |-> TRUE, readable |-> TRUE, lines |-> lines]

\* env_content[key] = value on an insertion-ordered dict
RECURSIVE DictSet(_, _, _)
DictSet(d, key, value) ==
    IF d = <<>> THEN <<<<key, value>>>>
    ELSE IF Head(d)[1] = key THEN <<<<key, value>>>> \o Tail(d)
    ELSE <<Head(d)>> \o DictSet(Tail(d), key, value)

\* the loop of save_password_to_env over the lines of the file
RECURSIVE ReadEnvContent(_, _)
ReadEnvContent(lines, d) ==
    IF lines = <<>> THEN d
    ELSE LET line == Head(lines)
         IN  IF line[1] \notin {"#", ""}
             THEN ReadEnvContent(Tail(lines), DictSet(d, line[1], Strip(line[2])))
             ELSE ReadEnvContent(Tail(lines), d)

\* save_password_to_env(password) on a readable or absent file, with the salt
\* that generate_salt() returned
save_password_to_env(password, salt, file) ==
    LET hashed == hash_password(password, salt)
        env0 == IF file.exists THEN ReadEnvContent(file.lines, <<>>) ELSE <<>>
        env1 == DictSet(env0, HASH, hashed[1])
        env2 == DictSet(env1, SALT, hashed[2])
    IN  File(<<Comment, Comment, Blank>> \o env2)

\* the value of the last line with this key, None when there is none
RECURSIVE LastValue(_, _, _)
LastValue(lines, key, found) ==
    IF lines = <<>> THEN found
    ELSE LastValue(Tail(lines), key,
                   IF Head(lines)[1] = key THEN Strip(Head(lines)[2]) ELSE found)

load_password_from_env_hashonly(file) ==
    IF ~file.exists \/ ~file.readable THEN None
    ELSE LET password_hash == LastValue(file.lines, HASH, None)
             password_salt == LastValue(file.lines, SALT, None)
         IN  IF password_hash # <<>>
             THEN <<password_hash, password_salt>>
             ELSE None

\* load_password_from_env: (hash, salt), or None
load_password_from_env(file) ==
    IF ~file.exists THEN None
    ELSE IF ~file.readable THEN None
    ELSE LET password_hash == LastValue(file.lines, HASH, None)
             password_salt == LastValue(file.lines, SALT, None)
         IN  IF password_hash # <<>> /\ password_salt # <<>>
             THEN <<password_hash, password_salt>>
             ELSE None

\* verify_card_password(card_password)
verify_card_password(card_password, file) ==
    LET credentials == load_password_from_env(file)
    IN  IF credentials = None THEN FALSE
        ELSE verify_password(card_password, credentials[1], credentials[2])

\* no save_password_to_env and no verify_card_password is in progress: the
\* writer holds the lines it is about to write, the reader the number of
\* lines it has consumed and the hash and salt values it has found
NoProcs ==
    [w_pc |-> "idle", w_lines |-> <<>>,
     r_pc |-> "idle", r_password |-> <<>>, r_off |-> 0,
     r_hash |-> None, r_salt |-> None]

(***************************************************************************)
(* servo.py: the ServoLock.  A ServoLock is a record of its configuration, *)
(* its is_locked flag, its PWM handle, the duty cycle the PWM output was   *)
(* last given, whether its pin is set up as an output, and io, the calls   *)
(* its last method made on the PWM handle.  A duty cycle is held exactly,  *)
(* as its numerator over DutyDen.                                          *)
(***************************************************************************)
locked_angle == 0
unlocked_angle == 90
frequency == 50
min_pulse == 500
max_pulse == 2500
PeriodUs == 20000
DutyDen == 180 * PeriodUs

\* the arguments of main.py:42-46 over the defaults of servo.py:17-23
MainConfig ==
    [locked_angle |-> locked_angle, unlocked_angle |-> unlocked_angle,
     frequency |-> frequency, min_pulse |-> min_pulse, max_pulse |-> max_pulse]

\* servo.py:33-40: the fields before _setup_gpio
ServoFields(cfg) ==
    [locked_angle |-> cfg.locked_angle, unlocked_angle |-> cfg.unlocked_angle,
     frequency |-> cfg.frequency, min_pulse |-> cfg.min_pulse,
     max_pulse |-> cfg.max_pulse,
     is_locked |-> TRUE, pwm |-> "None", duty |-> 0, io |-> <<>>,
     pin_out |-> FALSE]

NoServo == ServoFields(MainConfig)

ClampAngle_none(angle) == angle

\* max(0, min(180, angle))
ClampAngle(angle) == IF angle < 0 THEN 0 ELSE IF angle > 180 THEN 180 ELSE angle

\* pulse_width = _map_value(angle, 0, 180, min_pulse, max_pulse), as its
\* numerator over 180
pulse_width(sv, angle) ==
    (sv.max_pulse - sv.min_pulse) * ClampAngle(angle) + sv.min_pulse * 180

\* the duty cycle set_angle computes:
\* duty_cycle = _map_value(pulse_width, 0, 20000, 0, 100)
duty_cycle(sv, angle) == 100 * pulse_width(sv, angle)

set_angle(sv, angle) ==
    IF sv.pwm # "None"
    THEN [sv EXCEPT !.duty = duty_cycle(sv, angle),
                    !.io = <<<<"ChangeDutyCycle", duty_cycle(sv, angle)>>>>]
    ELSE [sv EXCEPT !.io = <<>>]

lock(sv) == [set_angle(sv, sv.locked_angle) EXCEPT !.is_locked = TRUE]

unlock_moveonly(sv) == set_angle(sv, sv.unlocked_angle)

unlock(sv) == [set_angle(sv, sv.unlocked_angle) EXCEPT !.is_locked = FALSE]

toggle_unlock(sv) == unlock(sv)

toggle(sv) == IF sv.is_locked THEN unlock(sv) ELSE lock(sv)

cleanup_keep(sv) ==
    IF sv.pwm # "None" THEN [sv EXCEPT !.io = <<<<"stop">>>>]
    ELSE [sv EXCEPT !.io = <<>>]

\* pwm.stop() and pwm = None; the pin is left as it is
cleanup(sv) ==
    IF sv.pwm # "None" THEN [sv EXCEPT !.pwm = "None", !.io = <<<<"stop">>>>]
    ELSE [sv EXCEPT !.io = <<>>]

\* _setup_gpio: the pin becomes an output and the PWM is started at 0
_setup_gpio(sv) ==
    [sv EXCEPT !.pin_out = TRUE, !.pwm = "PWM", !.duty = 0,
               !.io = <<<<"start", 0>>>>]

ServoLock_nolock(sv) ==
    _setup_gpio([sv EXCEPT !.pwm = "None", !.is_locked = TRUE])

\* ServoLock.__init__ from line 39: pwm = None, is_locked = True,
\* _setup_gpio(), then _initialize_position() locks
ServoLock(sv) ==
    LET started == _setup_gpio([sv EXCEPT !.pwm = "None", !.is_locked = TRUE])
        locked == lock(started)
    IN  [locked EXCEPT !.io = started.io \o locked.io]

\* the ServoLock main.py:42-46 constructs
ServoLockInit == ServoLock(NoServo)

(***************************************************************************)
(* The display main.py drives: two lines of text, a backlight, its pins.   *)
(***************************************************************************)
NoLcd == [lines |-> <<<<>>, <<>>>>, backlight |-> FALSE, open |-> FALSE]

lcd_init == [lines |-> <<<<>>, <<>>>>, backlight |-> TRUE, open |-> TRUE]

lcd_clear(d) == [d EXCEPT !.lines = <<<<>>, <<>>>>]

lcd_write(d, col, row, text) == [d EXCEPT !.lines[row + 1] = text]

lcd_set_backlight(d, on) == [d EXCEPT !.backlight = on]

lcd_cleanup(d) == [d EXCEPT !.open = FALSE]

(***************************************************************************)
(* Inputs.                                                                 *)
(***************************************************************************)
CardIds == {1, 2, 12}
Passwords == {<<"a">>, <<"b">>, <<" ", "a", " ">>, <<"a", "1">>}
SaltInputs == generate_salt \cup {<<"2">>, <<>>}

\* a hex string with the character at position i replaced
Tamper(h, i, x) == [h EXCEPT ![i] = x]

GoodHashes == {hash_password(p, s)[1] : p \in {<<"a">>, <<"b">>}, s \in SaltInputs}
TamperedHashes ==
    {Tamper(h, i, x) : h \in {hash_password(<<"a">>, <<"2">>)[1]},
                       i \in 1..4, x \in HexDigits}
StoredHashes == GoodHashes \cup TamperedHashes

\* files the program may find when it starts
InitialFiles ==
    {Absent, Unreadable, File(<<>>), File(<<Comment, <<"OTHER", <<"1">>>>>>)}
    \cup {File(<<<<HASH, hash_password(<<"a">>, <<>>)[1]>>>>),
          File(<<<<HASH, hash_password(<<"a">>, <<>>)[1]>>, <<SALT, <<" ">>>>>>),
          File(<<<<SALT, <<"1", "2">>>>>>),
          File(<<<<HASH, <<>>>>, <<SALT, <<"1", "2">>>>>>),
          File(<<<<HASH, hash_password(<<"a">>, <<"1", "2">>)[1]>>,
                 <<HASH, <<" ">>>>, <<SALT, <<"1", "2">>>>>>)}
    \cup {save_password_to_env(<<"a">>, <<"1", "2">>, Absent),
          File(<<<<SALT, <<"2", "1">>>>, <<"OTHER", <<"1">>>>,
                 <<HASH, <<" ">> \o hash_password(<<"b">>, <<"2", "1">>)[1]>>,
                 <<SALT, <<"2", "1">>>>>>)}

NoRet == [op |-> "none", card |-> 0, card2 |-> 0, password |-> <<>>,
          salt |-> <<>>, stored_hash |-> <<>>, file |-> Absent,
          before |-> <<>>, result |-> <<>>]

(***************************************************************************)
(* Calls into the authentication module.                                   *)
(***************************************************************************)
\* enrollment of card c with password p: save_password_to_env(p)
Enroll(c, p) ==
    /\ Len(enrolled) < MaxEnrollments
    /\ ~(env_file.exists /\ ~env_file.readable)
    /\ \E salt \in generate_salt :
          /\ env_file' = save_password_to_env(p, salt, env_file)
          /\ ret' = [NoRet EXCEPT !.op = "enroll", !.card = c, !.password = p,
                                  !.salt = salt, !.file = env_file',
                                  !.before = enrolled]
    /\ enrolled' = Append(enrolled, <<c, p>>)
    /\ UNCHANGED loopVars
    /\ UNCHANGED <<calls, procs, grants_odd>>

\* authorization of credential (c, p): the control loop's call at main.py:69
Authorize(c, p) ==
    /\ ret' = [NoRet EXCEPT !.op = "authorize", !.card = c, !.password = p,
                            !.file = env_file, !.before = enrolled,
                            !.result = verify_card_password(p, env_file)]
    /\ UNCHANGED <<env_file, enrolled>>
    /\ UNCHANGED loopVars
    /\ UNCHANGED <<calls, procs, grants_odd>>

HashPassword(p, s) ==
    /\ ret' = [NoRet EXCEPT !.op = "hash_password", !.password = p, !.salt = s,
                            !.result = hash_password(p, s)]
    /\ UNCHANGED <<env_file, enrolled>>
    /\ UNCHANGED loopVars
    /\ UNCHANGED <<calls, procs, grants_odd>>

\* the same password hashed with two card identifiers as salt
HashForCards(p, c1, c2) ==
    /\ ret' = [NoRet EXCEPT !.op = "hash_for_cards", !.password = p,
                            !.card = c1, !.card2 = c2,
                            !.result = <<hash_password(p, DecStr(c1))[1],
                                         hash_password(p, DecStr(c2))[1]>>]
    /\ UNCHANGED <<env_file, enrolled>>
    /\ UNCHANGED loopVars
    /\ UNCHANGED <<calls, procs, grants_odd>>

VerifyPassword(p, h, s) ==
    /\ ret' = [NoRet EXCEPT !.op = "verify_password", !.password = p,
                            !.stored_hash = h, !.salt = s,
                            !.result = verify_password(p, h, s)]
    /\ UNCHANGED <<env_file, enrolled>>
    /\ UNCHANGED loopVars
    /\ UNCHANGED <<calls, procs, grants_odd>>

\* run() is not running and no device object is in use
MainIdle ==
    /\ pc = 0 /\ card_data = None /\ lcd = NoLcd
    /\ gpio_open = FALSE /\ iter = <<>> /\ cleanup_log = <<>>
    /\ exit_cause = "none" /\ pending = "none" /\ empty_polls = 0
    /\ servo_at_poll = NoServo

LoopIdle ==
    /\ MainIdle
    /\ servo_lock = NoServo
    /\ calls = <<>>
    /\ procs = NoProcs
    /\ grants_odd = FALSE

InitAuth ==
    /\ LoopIdle
    /\ env_file \in InitialFiles
    /\ enrolled = <<>>
    /\ ret = NoRet

NextAuth ==
    \/ \E c \in CardIds, p \in Passwords : Enroll(c, p)
    \/ \E c \in CardIds, p \in Passwords : Authorize(c, p)

SpecAuth == InitAuth /\ [][NextAuth]_vars

InitHash ==
    /\ LoopIdle
    /\ env_file = Absent
    /\ enrolled = <<>>
    /\ ret = NoRet

NextHash ==
    \/ \E p \in Passwords, s \in SaltInputs : HashPassword(p, s)
    \/ \E p \in Passwords, c1 \in CardIds, c2 \in CardIds : HashForCards(p, c1, c2)
    \/ \E p \in Passwords, h \in StoredHashes, s \in SaltInputs : VerifyPassword(p, h, s)

SpecHash == InitHash /\ [][NextHash]_vars

(***************************************************************************)
(* Claims about the authentication module.                                 *)
(***************************************************************************)
\* the last line with this key carries a non-empty value
HasValue(file, key) ==
    \E i \in 1..Len(file.lines) :
        /\ file.lines[i][1] = key
        /\ \A j \in (i + 1)..Len(file.lines) : file.lines[j][1] # key
        /\ Strip(file.lines[i][2]) # <<>>

NoCompleteRecord(file) ==
    \/ ~file.exists
    \/ ~file.readable
    \/ ~HasValue(file, HASH)
    \/ ~HasValue(file, SALT)

\* C4: when no complete record can be loaded (file absent or unreadable, hash
\* entry absent or empty, salt entry absent or empty) authorization returns
\* false, as a value, for every supplied password.
C4_FailClosed ==
    (ret.op = "authorize" /\ NoCompleteRecord(ret.file)) => ret.result = FALSE

C4_Witness ==
    /\ ret.op = "authorize"
    /\ ret.file.exists /\ ret.file.readable
    /\ HasValue(ret.file, HASH) /\ ~HasValue(ret.file, SALT)
    /\ ret.stored_hash = <<>>
    /\ Sha256Hex(ret.password) = LastValue(ret.file.lines, HASH, None)
    /\ ret.result = FALSE

LastOf(seq) == seq[Len(seq)]

\* C5: after enroll(c, p), authorize(c, p) is true, authorize(c, q) is false
\* for q # p and authorize(d, p) is false for d # c.
C5_EnrollThenAuthorize ==
    (ret.op = "authorize" /\ ret.before # <<>>) =>
        (ret.result = (/\ ret.card = LastOf(ret.before)[1]
                       /\ ret.password = LastOf(ret.before)[2]))

\* C6: authorize(c, p surrounded by whitespace) returns what authorize(c, p)
\* returns.
C6_Trimming ==
    ret.op = "authorize" =>
        ret.result = verify_card_password(Strip(ret.password), ret.file)

Differs(h1, h2) ==
    \/ Len(h1) # Len(h2)
    \/ \E i \in 1..Len(h1) : h1[i] # h2[i]

\* C7: verify returns true for the hash produced from the same password and
\* salt, and false for every stored hash that differs from it in at least
\* one character.
C7_VerifyExact ==
    ret.op = "verify_password" =>
        LET h == Sha256Hex(ret.password \o ret.salt)
        IN  /\ ~Differs(ret.stored_hash, h) => ret.result = TRUE
            /\ Differs(ret.stored_hash, h) => ret.result = FALSE

C7_Witness ==
    /\ ret.op = "verify_password"
    /\ ret.result = FALSE
    /\ LET h == Sha256Hex(ret.password \o ret.salt)
       IN  /\ Len(h) = Len(ret.stored_hash)
           /\ Cardinality({i \in 1..Len(h) : h[i] # ret.stored_hash[i]}) = 1
           /\ h[1] = ret.stored_hash[1] /\ h[2] = ret.stored_hash[2]

C30_HashInputDeterminesPair ==
    ret.op = "verify_password" =>
        \A password \in Passwords, salt \in SaltInputs :
            (/\ ret.stored_hash = hash_password(password, salt)[1]
             /\ password # ret.password
             /\ salt # ret.salt) => ret.result = FALSE

CountKey(file, key) ==
    Cardinality({i \in 1..Len(file.lines) : file.lines[i][1] = key})

Earlier(seq) == {seq[i] : i \in 1..(Len(seq) - 1)}

\* C9: after any sequence of enrollments storage holds exactly one record,
\* that of the last enrollment; the last enrolled credential is authorized
\* and every earlier one (different password or card) no longer is.
C9_LastEnrollmentOnly ==
    /\ ret.op = "enroll" =>
          /\ CountKey(ret.file, HASH) = 1
          /\ CountKey(ret.file, SALT) = 1
          /\ load_password_from_env(ret.file)
                = <<Sha256Hex(ret.password \o ret.salt), ret.salt>>
    /\ (ret.op = "authorize" /\ ret.before # <<>>) =>
          /\ <<ret.card, ret.password>> = LastOf(ret.before) => ret.result = TRUE
          /\ (/\ <<ret.card, ret.password>> \in Earlier(ret.before)
              /\ <<ret.card, ret.password>> # LastOf(ret.before))
                => ret.result = FALSE

(***************************************************************************)
(* main.py: run().  pc is the line of main.py about to execute.            *)
(***************************************************************************)
InitLines == 25..53
BodyLines == 58..87
HandlerLines == 91..100
FinallyLines == 103..107
Returned == 109
Raised == -1

ClearLines == {26, 51, 64, 71, 78, 84, 91, 97, 104}
WriteLines == {27, 28, 52, 53, 65, 66, 72, 73, 79, 80, 85, 86, 92, 93, 98, 99}
SleepLines == {67, 75, 81, 87, 94, 100}

\* the arguments of lcd.write at each line
WriteArgs(l) ==
    CASE l = 27 -> <<0, 0, <<"RFID Lock">>>>
      [] l = 28 -> <<0, 1, <<"Initializing...">>>>
      [] l \in {52, 85} -> <<0, 0, <<"System Ready">>>>
      [] l \in {53, 86} -> <<0, 1, <<"Scan card...">>>>
      [] l = 65 -> <<0, 0, <<"Card Detected">>>>
      [] l = 66 -> <<0, 1, <<"ID: ">> \o DecStr(card_data[1])>>
      [] l = 72 -> <<0, 0, <<"Access Granted">>>>
      [] l = 73 -> <<0, 1, <<"Welcome!">>>>
      [] l = 79 -> <<0, 0, <<"Access Denied">>>>
      [] l = 80 -> <<0, 1, <<"Unauthorized">>>>
      [] l = 92 -> <<0, 0, <<"Shutting Down">>>>
      [] l = 93 -> <<0, 1, <<"Goodbye!">>>>
      [] l = 98 -> <<0, 0, <<"System Error">>>>
      [] l = 99 -> <<0, 1, <<"Check logs!">>>>

\* the statement executed after the one at line l completes
NextLine(l) ==
    CASE l = 28 -> 30
      [] l = 30 -> 42
      [] l = 42 -> 51
      [] l = 53 -> 58
      [] l = 67 -> 69
      [] l = 75 -> 84
      [] l = 81 -> 84
      [] l = 87 -> 58
      [] l = 94 -> 103
      [] l = 100 -> 103
      [] OTHER -> l + 1

AfterRead_break(data) == IF data # None THEN 64 ELSE 103

\* line 60: if card_data
AfterRead(data) == IF data # None THEN 64 ELSE 58

AfterVerify_grant(authorized) == 71

\* line 69: if verify_card_authorization(card_id, card_password)
AfterVerify(authorized) == IF authorized THEN 71 ELSE 78

AfterGranted_skip == 74 + 1

\* line 73 is followed by servo_lock.toggle()
AfterGranted == 74

\* calls of the current iteration and of the finally block are recorded
Log(events) ==
    /\ iter' = IF pc \in BodyLines THEN iter \o events ELSE iter
    /\ cleanup_log' = IF pc \in FinallyLines THEN cleanup_log \o events
                      ELSE cleanup_log

Raise_continue(k) ==
    /\ pc' = IF pc \in BodyLines
             THEN (IF k = "KeyboardInterrupt" THEN 91 ELSE 84)
             ELSE IF pc \in HandlerLines THEN 103 ELSE Raised
    /\ pending' = IF pc \in BodyLines THEN "none" ELSE k
    /\ exit_cause' = IF pc \in BodyLines
                     THEN (IF k = "KeyboardInterrupt" THEN "interrupt" ELSE "fault")
                     ELSE exit_cause

\* an exception of kind k raised by the statement at pc: caught by the
\* handlers when raised in the try body, in flight through the finally block
\* when raised in a handler, and out of run() otherwise
Raise(k) ==
    /\ pc' = IF pc \in BodyLines
             THEN (IF k = "KeyboardInterrupt" THEN 91 ELSE 97)
             ELSE IF pc \in HandlerLines THEN 103 ELSE Raised
    /\ pending' = IF pc \in BodyLines THEN "none" ELSE k
    /\ exit_cause' = IF pc \in BodyLines
                     THEN (IF k = "KeyboardInterrupt" THEN "interrupt" ELSE "fault")
                     ELSE exit_cause

\* falling off the end of the finally block
AfterFinally == IF pending = "none" THEN Returned ELSE Raised

authUnchanged == UNCHANGED <<env_file, enrolled, ret, calls, procs, grants_odd>>

\* line 25
ConstructLcd ==
    /\ pc = 25
    /\ lcd' = lcd_init
    /\ gpio_open' = TRUE
    /\ pc' = NextLine(pc)
    /\ UNCHANGED <<card_data, servo_lock, iter, cleanup_log, exit_cause,
                   pending, empty_polls, servo_at_poll>>
    /\ authUnchanged

\* lcd.clear()
LcdClear ==
    /\ pc \in ClearLines
    /\ lcd' = lcd_clear(lcd)
    /\ Log(<<<<"lcd.clear">>>>)
    /\ pc' = NextLine(pc)
    /\ UNCHANGED <<card_data, servo_lock, gpio_open, exit_cause, pending,
                   empty_polls, servo_at_poll>>
    /\ authUnchanged

\* lcd.write(col, row, text)
LcdWrite ==
    /\ pc \in WriteLines
    /\ LET a == WriteArgs(pc)
       IN  /\ lcd' = lcd_write(lcd, a[1], a[2], a[3])
           /\ Log(<<<<"lcd.write", a[1], a[2], a[3]>>>>)
    /\ pc' = IF pc = 73 THEN AfterGranted ELSE NextLine(pc)
    /\ UNCHANGED <<card_data, servo_lock, gpio_open, exit_cause, pending,
                   empty_polls, servo_at_poll>>
    /\ authUnchanged

\* time.sleep(...)
Sleep ==
    /\ pc \in SleepLines
    /\ pc' = NextLine(pc)
    /\ UNCHANGED <<card_data, lcd, servo_lock, gpio_open, iter, cleanup_log,
                   exit_cause, pending, empty_polls, servo_at_poll>>
    /\ authUnchanged

\* line 30
ConstructReader ==
    /\ pc = 30
    /\ pc' = NextLine(pc)
    /\ UNCHANGED <<card_data, lcd, servo_lock, gpio_open, iter, cleanup_log,
                   exit_cause, pending, empty_polls, servo_at_poll>>
    /\ authUnchanged

\* lines 35-46
ConstructServo ==
    /\ pc = 42
    /\ servo_lock' = ServoLockInit
    /\ gpio_open' = TRUE
    /\ pc' = NextLine(pc)
    /\ UNCHANGED <<card_data, lcd, iter, cleanup_log, exit_cause, pending,
                   empty_polls, servo_at_poll>>
    /\ authUnchanged

\* lines 58-60 with rfid.read_card: the driver returned a credential
ReadCard(credential) ==
    /\ pc = 58
    /\ card_data' = credential
    /\ iter' = <<<<"read_card", credential>>>>
    /\ servo_at_poll' = servo_lock
    /\ pc' = AfterRead(credential)
    /\ UNCHANGED <<lcd, servo_lock, gpio_open, cleanup_log, exit_cause,
                   pending, empty_polls>>
    /\ authUnchanged

\* lines 58-60 with rfid.read_card: the driver raised, read_card returned None
ReadFault ==
    /\ pc = 58
    /\ empty_polls < MaxEmptyPolls
    /\ empty_polls' = empty_polls + 1
    /\ card_data' = None
    /\ iter' = <<<<"read_card", None>>>>
    /\ servo_at_poll' = servo_lock
    /\ pc' = AfterRead(None)
    /\ UNCHANGED <<lcd, servo_lock, gpio_open, cleanup_log, exit_cause, pending>>
    /\ authUnchanged

\* line 69: verify_card_authorization(card_id, card_password); the
\* authorization auth.py provides is verify_card_password(card_password)
Verify ==
    /\ pc = 69
    /\ LET card_id == card_data[1]
           card_password == card_data[2]
           authorized == verify_card_password(card_password, env_file)
       IN  /\ iter' = iter \o <<<<"verify_card_authorization", card_id, card_password>>,
                                <<"return", authorized>>>>
           /\ pc' = AfterVerify(authorized)
           /\ grants_odd' = (grants_odd # authorized)
    /\ UNCHANGED <<card_data, lcd, servo_lock, gpio_open, cleanup_log,
                   exit_cause, pending, empty_polls, servo_at_poll>>
    /\ UNCHANGED <<env_file, enrolled, ret, calls, procs>>

\* line 74
Toggle ==
    /\ pc = 74
    /\ servo_lock' = toggle(servo_lock)
    /\ iter' = Append(iter, <<"toggle">>)
    /\ pc' = NextLine(pc)
    /\ UNCHANGED <<card_data, lcd, gpio_open, cleanup_log, exit_cause, pending,
                   empty_polls, servo_at_poll>>
    /\ authUnchanged

\* line 103
ServoCleanup ==
    /\ pc = 103
    /\ servo_lock' = cleanup(servo_lock)
    /\ Log(<<<<"servo_lock.cleanup">>>>)
    /\ pc' = NextLine(pc)
    /\ UNCHANGED <<card_data, lcd, gpio_open, exit_cause, pending, empty_polls,
                   servo_at_poll>>
    /\ authUnchanged

\* line 105
LcdBacklightOff ==
    /\ pc = 105
    /\ lcd' = lcd_set_backlight(lcd, FALSE)
    /\ Log(<<<<"lcd.set_backlight", FALSE>>>>)
    /\ pc' = NextLine(pc)
    /\ UNCHANGED <<card_data, servo_lock, gpio_open, exit_cause, pending,
                   empty_polls, servo_at_poll>>
    /\ authUnchanged

\* line 106
LcdCleanup ==
    /\ pc = 106
    /\ lcd' = lcd_cleanup(lcd)
    /\ Log(<<<<"lcd.cleanup">>>>)
    /\ pc' = NextLine(pc)
    /\ UNCHANGED <<card_data, servo_lock, gpio_open, exit_cause, pending,
                   empty_polls, servo_at_poll>>
    /\ authUnchanged

\* line 107, the last statement of the finally block
GpioCleanup ==
    /\ pc = 107
    /\ gpio_open' = FALSE
    /\ servo_lock' = [servo_lock EXCEPT !.pin_out = FALSE]
    /\ Log(<<<<"GPIO.cleanup">>>>)
    /\ pc' = AfterFinally
    /\ UNCHANGED <<card_data, lcd, exit_cause, pending, empty_polls,
                   servo_at_poll>>
    /\ authUnchanged

\* the calls that can raise an Exception: the display calls, authorization,
\* toggle() and the cleanup calls on the servo and the display
FaultLines ==
    ClearLines \cup WriteLines \cup {69, 74, 103, 105, 106}

\* the call the statement at line l makes before it raises
Invocation(l) ==
    CASE l = 69 -> <<<<"verify_card_authorization", card_data[1], card_data[2]>>>>
      [] l = 74 -> <<<<"toggle">>>>
      [] OTHER -> <<>>

\* the call at pc raises an Exception
Fault ==
    /\ pc \in FaultLines
    /\ Log(Invocation(pc) \o <<<<"raise", pc>>>>)
    /\ Raise("Exception")
    /\ UNCHANGED <<card_data, lcd, servo_lock, gpio_open, empty_polls,
                   servo_at_poll>>
    /\ authUnchanged

\* SIGINT: KeyboardInterrupt is raised at the statement about to execute
Interrupt ==
    /\ pc \in InitLines \cup BodyLines \cup HandlerLines \cup FinallyLines
    /\ Log(<<<<"raise", pc>>>>)
    /\ Raise("KeyboardInterrupt")
    /\ UNCHANGED <<card_data, lcd, servo_lock, gpio_open, empty_polls,
                   servo_at_poll>>
    /\ authUnchanged

\* SIGINT during toggle(): KeyboardInterrupt is raised in the sleep of
\* set_angle (servo.py:95), after the duty cycle changed and before
\* is_locked is assigned
InterruptInToggle ==
    /\ pc = 74
    /\ servo_lock' = set_angle(servo_lock,
                               IF servo_lock.is_locked
                               THEN servo_lock.unlocked_angle
                               ELSE servo_lock.locked_angle)
    /\ Log(<<<<"toggle">>, <<"raise", pc>>>>)
    /\ Raise("KeyboardInterrupt")
    /\ UNCHANGED <<card_data, lcd, gpio_open, empty_polls, servo_at_poll>>
    /\ authUnchanged

\* the credentials presented to the reader
Credentials == {<<1, <<"a">>>>, <<2, <<"a">>>>, <<1, <<"b">>>>}

\* the .env file the appliance runs with
LoopFiles == {Absent, save_password_to_env(<<"a">>, <<"1", "2">>, Absent)}

Init ==
    /\ pc = 25 /\ card_data = None /\ lcd = NoLcd /\ servo_lock = NoServo
    /\ gpio_open = FALSE /\ iter = <<>> /\ cleanup_log = <<>>
    /\ exit_cause = "none" /\ pending = "none" /\ empty_polls = 0
    /\ servo_at_poll = NoServo
    /\ env_file \in LoopFiles
    /\ enrolled = <<>>
    /\ ret = NoRet
    /\ calls = <<>>
    /\ procs = NoProcs
    /\ grants_odd = FALSE

Next ==
    \/ ConstructLcd
    \/ LcdClear
    \/ LcdWrite
    \/ Sleep
    \/ ConstructReader
    \/ ConstructServo
    \/ \E credential \in Credentials : ReadCard(credential)
    \/ ReadFault
    \/ Verify
    \/ Toggle
    \/ ServoCleanup
    \/ LcdBacklightOff
    \/ LcdCleanup
    \/ GpioCleanup
    \/ Fault
    \/ Interrupt
    \/ InterruptInToggle

Spec == Init /\ [][Next]_vars

(***************************************************************************)
(* Claims about the control loop.                                          *)
(***************************************************************************)
\* number of calls of this name made by the current iteration
Calls(name) == Cardinality({i \in DOMAIN iter : iter[i][1] = name})

\* authorization returned this value in the current iteration
Returned_(value) ==
    \E i \in DOMAIN iter : iter[i][1] = "return" /\ iter[i][2] = value

Wrote(text) ==
    \E i \in DOMAIN iter : iter[i][1] = "lcd.write" /\ iter[i][4] = text

ReadyLines == <<<<"System Ready">>, <<"Scan card...">>>>

SameLockState(sv1, sv2) == sv1.is_locked = sv2.is_locked /\ sv1.duty = sv2.duty

\* C1: in an iteration in which authorization returns true, authorization was
\* called exactly once, with the identifier and payload that were read; the
\* iteration proceeds through the grant branch unless an exception ends the
\* loop; and when it is back at the poll, toggle() has been called exactly
\* once, the lock state has flipped, the success message has been written and
\* the display shows the ready message.
C1_GrantedIteration ==
    \A i \in DOMAIN iter :
        (iter[i][1] = "return" /\ iter[i][2] = TRUE) =>
            /\ Calls("verify_card_authorization") = 1
            /\ iter[1] = <<"read_card", card_data>>
            /\ iter[i - 1] = <<"verify_card_authorization", card_data[1], card_data[2]>>
            /\ Calls("toggle") <= 1
            /\ exit_cause = "none" => pc \in {71, 72, 73, 74, 75, 84, 85, 86, 87, 58}
            /\ pc \in {75, 84, 85, 86, 87, 58} =>
                  /\ Calls("toggle") = 1
                  /\ servo_lock.is_locked # servo_at_poll.is_locked
                  /\ Wrote(<<"Access Granted">>)
            /\ pc = 58 => lcd.lines = ReadyLines

C1_Witness ==
    /\ pc = 58
    /\ Returned_(TRUE)
    /\ card_data = <<1, <<"a">>>>
    /\ Calls("toggle") = 1
    /\ lcd.lines = ReadyLines

\* C2: in an iteration in which authorization returns false, toggle() is not
\* called and the lock state is as it was at the poll; the iteration proceeds
\* through the denial branch unless an exception ends the loop; the denial
\* message is written and shown, and back at the poll the display shows the
\* ready message.  Preceding empty polls do not matter.
C2_DeniedIteration ==
    Returned_(FALSE) =>
        /\ Calls("toggle") = 0
        /\ SameLockState(servo_lock, servo_at_poll)
        /\ exit_cause = "none" => pc \in {78, 79, 80, 81, 84, 85, 86, 87, 58}
        /\ pc \in {81, 84} =>
              lcd.lines = <<<<"Access Denied">>, <<"Unauthorized">>>>
        /\ pc \in {81, 84, 85, 86, 87, 58} => Wrote(<<"Access Denied">>)
        /\ pc = 58 => lcd.lines = ReadyLines

C2_Witness ==
    /\ pc = 58
    /\ Returned_(FALSE)
    /\ empty_polls = MaxEmptyPolls
    /\ Wrote(<<"Access Denied">>)
    /\ SameLockState(servo_lock, servo_at_poll)
    /\ ~servo_lock.is_locked

\* C3: after a poll that yielded no credential the loop is at the poll again
\* (unless an interrupt arrived), having called neither authorization nor
\* toggle() nor anything else, with the lock state unchanged; the empty poll
\* never takes the loop to a handler or to the cleanup.
C3_EmptyPoll ==
    (iter # <<>> /\ iter[1] = <<"read_card", None>>) =>
        /\ Calls("verify_card_authorization") = 0
        /\ Calls("toggle") = 0
        /\ Calls("lcd.clear") = 0 /\ Calls("lcd.write") = 0
        /\ SameLockState(servo_lock, servo_at_poll)
        /\ exit_cause # "fault"
        /\ exit_cause = "none" => pc = 58

C3_Witness ==
    /\ pc = 58
    /\ iter = <<<<"read_card", None>>>>
    /\ empty_polls = MaxEmptyPolls
    /\ exit_cause = "none"

FullCleanup ==
    <<<<"servo_lock.cleanup">>, <<"lcd.clear">>, <<"lcd.set_backlight", FALSE>>,
      <<"lcd.cleanup">>, <<"GPIO.cleanup">>>>

\* C10: whenever the main loop was left, by interrupt or by fault, and run()
\* has ended, the five cleanup steps ran once each in order and run()
\* returned normally.
C10_CleanupOnExit ==
    (exit_cause # "none" /\ pc \in {Returned, Raised}) =>
        /\ pc = Returned
        /\ cleanup_log = FullCleanup
        /\ servo_lock.pwm = "None"
        /\ lcd.lines = <<<<>>, <<>>>> /\ ~lcd.backlight /\ ~lcd.open
        /\ ~gpio_open

\* the run has ended: run() returned or an exception left it
Ended == pc \in {Returned, Raised}

\* the call of this name is in the record of the finally block
Cleaned(name) == \E i \in DOMAIN cleanup_log : cleanup_log[i][1] = name

\* the cleanup steps that follow the statement at line l of the finally block
LaterSteps(l) ==
    {FullCleanup[j][1] : j \in {j \in DOMAIN FullCleanup : 102 + j > l}}

\* C11: when a cleanup step of the finally block has raised an Exception and
\* the run has ended, every later cleanup step was still executed and the
\* GPIO resources are released.
C11_BestEffortCleanup ==
    \A i \in DOMAIN cleanup_log :
        (Ended /\ pending = "Exception" /\ cleanup_log[i][1] = "raise") =>
            /\ \A name \in LaterSteps(cleanup_log[i][2]) : Cleaned(name)
            /\ ~gpio_open

\* C12: when a KeyboardInterrupt was raised, in whatever state of the control
\* loop, and the run has ended, the finally block was entered before it ended.
C12_InterruptShutsDown ==
    (Ended /\ (exit_cause = "interrupt" \/ pending = "KeyboardInterrupt")) =>
        cleanup_log # <<>>

ErrorLines == <<<<"System Error">>, <<"Check logs!">>>>

\* an Exception raised by the call at line l ended the loop
FaultAt(l) ==
    exit_cause = "fault" /\ iter # <<>> /\ LastOf(iter) = <<"raise", l>>

\* C13: an Exception raised by authorization (line 69) or by toggle() (line
\* 74) ends the loop: control is in the Exception handler, in the finally
\* block or out of run(), never at the poll again; once the handler has run
\* through, the display shows the error message and stays so until the
\* cleanup clears it; the finally block is entered before the run ends; and
\* when authorization raised, toggle() was not called and the lock is as it
\* was at the poll.
C13_FaultIsFatal ==
    (FaultAt(69) \/ FaultAt(74)) =>
        /\ pc \in {97, 98, 99, 100} \cup FinallyLines \cup {Returned, Raised}
        /\ Calls("read_card") = 1
        /\ (pc = 100 \/ (pc \in {103, 104} /\ pending = "none")) =>
               lcd.lines = ErrorLines
        /\ Ended => cleanup_log # <<>>
        /\ FaultAt(69) =>
               /\ Calls("toggle") = 0
               /\ SameLockState(servo_lock, servo_at_poll)
        /\ FaultAt(74) => Calls("toggle") = 1

C13_Witness ==
    /\ FaultAt(69)
    /\ pc = Returned
    /\ cleanup_log = FullCleanup
    /\ Calls("toggle") = 0

\* C24: whenever the display shows the access-granted message, the toggle
\* of that grant has been performed: toggle() was called in this iteration
\* and the lock state is the opposite of what it was at the poll.
C24_ToggleBeforeMessage ==
    lcd.lines[1] = <<"Access Granted">> =>
        /\ Calls("toggle") = 1
        /\ servo_lock.is_locked # servo_at_poll.is_locked

\* C28: in every reachable state of the control loop the lock is Unlocked
\* exactly when the number of credentials granted since startup is odd.
C28_UnlockedIffOddGrants ==
    (~servo_lock.is_locked) <=> grants_odd

\* toggle() was called in the current iteration and returned
Toggled ==
    /\ Calls("toggle") = 1
    /\ \A i \in DOMAIN iter : iter[i] # <<"raise", 74>>

\* C28 as it holds: the lock is Unlocked exactly when the number of grants is
\* odd in every state except those of a grant whose toggle() has not been
\* performed (lines 71-74, or an exception that ended the loop there): in
\* these the lock is still as it was at the poll. It is Locked until the
\* first grant; an empty poll, a denial, a fault and the shutdown leave it.
C28_UnlockedIffOddGrantsToggled ==
    /\ \/ (~servo_lock.is_locked) <=> grants_odd
       \/ /\ Returned_(TRUE)
          /\ ~Toggled
          /\ servo_lock.is_locked = servo_at_poll.is_locked
    /\ pc = 58 => ((~servo_lock.is_locked) <=> grants_odd)
    /\ Returned_(TRUE) \/ servo_lock.is_locked = servo_at_poll.is_locked

\* two grants and the shutdown after them: the lock is Locked again
C28_Witness ==
    /\ pc = Returned
    /\ Returned_(TRUE)
    /\ Calls("toggle") = 1
    /\ ~grants_odd
    /\ servo_lock.is_locked
    /\ ~servo_at_poll.is_locked

\* the duty cycle last written is the one of the angle is_locked stands for
PositionAgrees(sv) ==
    sv.duty = duty_cycle(sv, IF sv.is_locked THEN sv.locked_angle
                             ELSE sv.unlocked_angle)

\* C25: an interrupt that ended the loop was raised at the poll, between two
\* iterations, never inside a display update, a verification or a lock
\* actuation, and it leaves the lock where its recorded state says it is.
C25_InterruptBetweenIterations ==
    exit_cause = "interrupt" =>
        /\ LastOf(iter) = <<"raise", 58>>
        /\ Calls("raise") = 1
        /\ PositionAgrees(servo_lock)

(***************************************************************************)
(* The ServoLock on its own: constructed once, then driven through its     *)
(* public methods.  Each call is recorded with the object before and       *)
(* after it.                                                               *)
(***************************************************************************)
MaxServoCalls == 3

\* the configuration of main.py:42-46 and the one of test_init
ServoConfigs ==
    {MainConfig,
     [locked_angle |-> 45, unlocked_angle |-> 135, frequency |-> 100,
      min_pulse |-> 600, max_pulse |-> 2400]}

\* duty cycle the PWM output had before the object was made
PriorDuties == {0, 100 * 180 * max_pulse}

\* angles asked of set_angle
Angles == {0 - 10, 0, 45, 90, 180, 200}

Called(op, arg, sv) ==
    calls' = Append(calls, [op |-> op, arg |-> arg, before |-> servo_lock,
                            after |-> sv])

servoFrame ==
    UNCHANGED <<pc, card_data, lcd, gpio_open, iter, cleanup_log, exit_cause,
                pending, empty_polls, servo_at_poll, env_file, enrolled, ret,
                procs, grants_odd>>

Constructed == calls # <<>>

\* ServoLock(pin, locked_angle, unlocked_angle, frequency, min_pulse, max_pulse)
CallServoLock ==
    /\ ~Constructed
    /\ servo_lock' = ServoLock(servo_lock)
    /\ Called("ServoLock", 0, servo_lock')
    /\ servoFrame

CallLock ==
    /\ Constructed /\ Len(calls) < MaxServoCalls
    /\ servo_lock' = lock(servo_lock)
    /\ Called("lock", 0, servo_lock')
    /\ servoFrame

CallUnlock ==
    /\ Constructed /\ Len(calls) < MaxServoCalls
    /\ servo_lock' = unlock(servo_lock)
    /\ Called("unlock", 0, servo_lock')
    /\ servoFrame

CallToggle ==
    /\ Constructed /\ Len(calls) < MaxServoCalls
    /\ servo_lock' = toggle(servo_lock)
    /\ Called("toggle", 0, servo_lock')
    /\ servoFrame

CallSetAngle(angle) ==
    /\ Constructed /\ Len(calls) < MaxServoCalls
    /\ servo_lock' = set_angle(servo_lock, angle)
    /\ Called("set_angle", angle, servo_lock')
    /\ servoFrame

CallCleanup ==
    /\ Constructed /\ Len(calls) < MaxServoCalls
    /\ servo_lock' = cleanup(servo_lock)
    /\ Called("cleanup", 0, servo_lock')
    /\ servoFrame

InitServo ==
    /\ MainIdle
    /\ servo_lock \in {[ServoFields(cfg) EXCEPT !.duty = d, !.is_locked = l] :
                          cfg \in ServoConfigs, d \in PriorDuties, l \in BOOLEAN}
    /\ calls = <<>>
    /\ procs = NoProcs
    /\ grants_odd = FALSE
    /\ env_file = Absent
    /\ enrolled = <<>>
    /\ ret = NoRet

NextServo ==
    \/ CallServoLock
    \/ CallLock
    \/ CallUnlock
    \/ CallToggle
    \/ \E angle \in Angles : CallSetAngle(angle)
    \/ CallCleanup

SpecServo == InitServo /\ [][NextServo]_vars

(***************************************************************************)
(* Claims about the lock actuator.                                         *)
(***************************************************************************)
\* C14: a ServoLock just constructed is locked and its PWM output was given
\* the duty cycle of the locked angle during construction, whatever the
\* output and the flag were before.
C14_ConstructedLocked ==
    \A i \in DOMAIN calls :
        calls[i].op = "ServoLock" =>
            LET sv == calls[i].after
            IN  /\ sv.is_locked
                /\ sv.pwm # "None"
                /\ sv.duty = duty_cycle(sv, sv.locked_angle)
                /\ LastOf(sv.io) = <<"ChangeDutyCycle", duty_cycle(sv, sv.locked_angle)>>

C14_Witness ==
    /\ Len(calls) = 1
    /\ calls[1].op = "ServoLock"
    /\ calls[1].before.duty = 100 * 180 * max_pulse
    /\ ~calls[1].before.is_locked
    /\ servo_lock.is_locked
    /\ servo_lock.locked_angle = 45
    /\ servo_lock.duty = 100 * (1800 * 45 + 600 * 180)

\* the call wrote a duty cycle to the PWM output
WrotePwm(call) ==
    \E k \in DOMAIN call.after.io : call.after.io[k][1] = "ChangeDutyCycle"

\* C15: lock() on a locked ServoLock and unlock() on an unlocked one write no
\* duty cycle and leave the object as it was, so that of two successive
\* lock() calls (or unlock() calls) at most one writes a duty cycle.
C15_StateGuarded ==
    \A i \in DOMAIN calls :
        /\ (calls[i].op = "lock" /\ calls[i].before.is_locked) =>
              /\ ~WrotePwm(calls[i])
              /\ calls[i].after.is_locked
        /\ (calls[i].op = "unlock" /\ ~calls[i].before.is_locked) =>
              /\ ~WrotePwm(calls[i])
              /\ ~calls[i].after.is_locked
        /\ (i > 1 /\ calls[i].op \in {"lock", "unlock"}
                  /\ calls[i - 1].op = calls[i].op) =>
              ~(WrotePwm(calls[i - 1]) /\ WrotePwm(calls[i]))

\* C16: toggle() leaves is_locked the opposite of what it was, and after two
\* successive toggle() calls is_locked is what it was before the first.
C16_ToggleFlips ==
    \A i \in DOMAIN calls :
        calls[i].op = "toggle" =>
            /\ calls[i].after.is_locked = ~calls[i].before.is_locked
            /\ (i > 1 /\ calls[i - 1].op = "toggle") =>
                  calls[i].after.is_locked = calls[i - 1].before.is_locked

C16_Witness ==
    /\ Len(calls) = 3
    /\ calls[2].op = "toggle" /\ calls[3].op = "toggle"
    /\ ~calls[2].after.is_locked
    /\ servo_lock.is_locked
    /\ servo_lock.pwm # "None"

\* the duty cycle of a pulse of us microseconds in the 20000 microsecond
\* period set_angle maps to, over DutyDen
DutyOfPulse(us) == 100 * 180 * us

\* C29: after any sequence of lock(), unlock(), toggle(), set_angle(angle)
\* and cleanup(), is_locked is true exactly when the last duty cycle applied
\* to the PWM output is the one of the locked angle.
C29_StateAgreesWithPosition ==
    \A i \in DOMAIN calls :
        LET sv == calls[i].after
        IN  sv.is_locked <=> (sv.duty = duty_cycle(sv, sv.locked_angle))

\* C17: set_angle on a ServoLock that holds its PWM handle writes a duty
\* cycle between those of the configured minimum and maximum pulse widths;
\* an angle of 0 or less gives exactly that of the minimum pulse width, an
\* angle of 180 or more exactly that of the maximum pulse width; and a
\* larger requested angle never gives a smaller duty cycle.
C17_ClampedMonotonic ==
    \A i \in DOMAIN calls :
        (calls[i].op = "set_angle" /\ calls[i].before.pwm # "None") =>
            LET sv == calls[i].after
                angle == calls[i].arg
            IN  /\ sv.io = <<<<"ChangeDutyCycle", sv.duty>>>>
                /\ DutyOfPulse(sv.min_pulse) <= sv.duty
                /\ sv.duty <= DutyOfPulse(sv.max_pulse)
                /\ angle <= 0 => sv.duty = DutyOfPulse(sv.min_pulse)
                /\ angle >= 180 => sv.duty = DutyOfPulse(sv.max_pulse)
                /\ \A j \in DOMAIN calls :
                      (calls[j].op = "set_angle" /\ calls[j].before.pwm # "None"
                       /\ calls[j].arg <= angle) =>
                          calls[j].after.duty <= sv.duty

C17_Witness ==
    /\ Len(calls) = 3
    /\ calls[2].op = "set_angle" /\ calls[2].arg = 200
    /\ calls[3].op = "set_angle" /\ calls[3].arg < 0
    /\ calls[2].after.duty = DutyOfPulse(2400)
    /\ servo_lock.duty = DutyOfPulse(600)

\* the duty cycle of a pulse of width pulse_width(sv, angle) in the period
\* of the configured frequency, 1000000 / frequency microseconds, over DutyDen
DutyAtFrequency(sv, angle) ==
    ((100 * PeriodUs * sv.frequency) \div 1000000) * pulse_width(sv, angle)

\* C18: whatever the configured frequency, the duty cycle set_angle writes
\* is the pulse width as a percentage of the period 1 / frequency.
C18_DutyFollowsFrequency ==
    \A i \in DOMAIN calls :
        (calls[i].op = "set_angle" /\ calls[i].before.pwm # "None") =>
            calls[i].after.duty = DutyAtFrequency(calls[i].after, calls[i].arg)

\* number of calls so far that stopped the PWM
Stops == Cardinality({i \in DOMAIN calls : calls[i].after.io = <<<<"stop">>>>})

\* C19 as stated: cleanup() stops the PWM once, releases the pin, and leaves
\* no PWM handle.
C19_CleanupReleasesPin ==
    \A i \in DOMAIN calls :
        (calls[i].op = "cleanup" /\ calls[i].before.pwm # "None") =>
            /\ calls[i].after.io = <<<<"stop">>>>
            /\ calls[i].after.pwm = "None"
            /\ ~calls[i].after.pin_out

\* C19, amended: cleanup() on a ServoLock that holds its PWM handle stops
\* the PWM once and drops the handle; a further cleanup() does nothing, so
\* the PWM is stopped at most once; the pin stays set up as an output, and
\* is_locked and the last duty cycle are untouched.
C19_CleanupStopsPwm ==
    /\ Stops <= 1
    /\ \A i \in DOMAIN calls :
          calls[i].op = "cleanup" =>
              /\ calls[i].after.pwm = "None"
              /\ calls[i].after.io =
                    (IF calls[i].before.pwm # "None" THEN <<<<"stop">>>> ELSE <<>>)
              /\ calls[i].after.pin_out = calls[i].before.pin_out
              /\ calls[i].after.pin_out
              /\ SameLockState(calls[i].after, calls[i].before)

C19_Witness ==
    /\ Len(calls) = 3
    /\ calls[2].op = "cleanup" /\ calls[3].op = "cleanup"
    /\ calls[2].after.io = <<<<"stop">>>>
    /\ servo_lock.io = <<>>
    /\ servo_lock.pwm = "None"
    /\ servo_lock.pin_out

(***************************************************************************)
(* rfid.py: the RFIDReader over the SimpleMFRC522 driver.  The driver is   *)
(* given as a script, the outcomes its successive calls would have: each   *)
(* returns an identifier and a text, or raises.  A method of the reader    *)
(* yields its result, the exception that leaves it ("none" when it         *)
(* returns), and the number of driver calls it made.                       *)
(***************************************************************************)
MaxReaderCalls == 2

\* classes derived from Exception that the driver raises
DriverFaults == {"OSError", "RuntimeError"}

\* KeyboardInterrupt derives from BaseException, not from Exception
IsException(raised) == raised \in DriverFaults

DriverReturns(card_id, text) == [raised |-> "none", id |-> card_id, text |-> text]

DriverRaises(raised) == [raised |-> raised, id |-> 0, text |-> <<>>]

DriverOutcomes ==
    {DriverReturns(1, <<"a">>), DriverReturns(2, <<"b">>)}
    \cup {DriverRaises(raised) : raised \in DriverFaults \cup {"KeyboardInterrupt"}}

DriverScripts == DriverOutcomes \X DriverOutcomes

read_card_retry(script) ==
    IF script[1].raised = "none"
    THEN [result |-> <<script[1].id, script[1].text>>, raised |-> "none",
          driver_calls |-> 1]
    ELSE IF script[2].raised = "none"
    THEN [result |-> <<script[2].id, script[2].text>>, raised |-> "none",
          driver_calls |-> 2]
    ELSE [result |-> None, raised |-> "none", driver_calls |-> 2]

\* read_card: one self.reader.read() in try / except Exception
read_card(script) ==
    LET outcome == script[1]
    IN  IF outcome.raised = "none"
        THEN [result |-> <<outcome.id, outcome.text>>, raised |-> "none",
              driver_calls |-> 1]
        ELSE IF IsException(outcome.raised)
        THEN [result |-> None, raised |-> "none", driver_calls |-> 1]
        ELSE [result |-> None, raised |-> outcome.raised, driver_calls |-> 1]

\* write_card: one self.reader.write(text) in try / except Exception
write_card(text, script) ==
    LET outcome == script[1]
    IN  IF outcome.raised = "none"
        THEN [result |-> TRUE, raised |-> "none", driver_calls |-> 1]
        ELSE IF IsException(outcome.raised)
        THEN [result |-> FALSE, raised |-> "none", driver_calls |-> 1]
        ELSE [result |-> FALSE, raised |-> outcome.raised, driver_calls |-> 1]

\* texts written to a card
Texts == {<<"a">>, <<"a", "1">>}

readerFrame ==
    UNCHANGED <<pc, card_data, lcd, servo_lock, gpio_open, iter, cleanup_log,
                exit_cause, pending, empty_polls, servo_at_poll, env_file,
                enrolled, ret,
                procs, grants_odd>>

CallReadCard(script) ==
    /\ Len(calls) < MaxReaderCalls
    /\ calls' = Append(calls, [op |-> "read_card", text |-> <<>>,
                               script |-> script, ret |-> read_card(script)])
    /\ readerFrame

CallWriteCard(text, script) ==
    /\ Len(calls) < MaxReaderCalls
    /\ calls' = Append(calls, [op |-> "write_card", text |-> text,
                               script |-> script,
                               ret |-> write_card(text, script)])
    /\ readerFrame

InitReader ==
    /\ LoopIdle
    /\ env_file = Absent
    /\ enrolled = <<>>
    /\ ret = NoRet

NextReader ==
    \/ \E script \in DriverScripts : CallReadCard(script)
    \/ \E text \in Texts, script \in DriverScripts : CallWriteCard(text, script)

SpecReader == InitReader /\ [][NextReader]_vars

(***************************************************************************)
(* Claims about the credential reader.                                     *)
(***************************************************************************)
\* C20: every read_card and write_card call makes exactly one driver call;
\* when the driver returns, read_card returns the identifier and text and
\* write_card returns true; when the driver raises a fault (an Exception),
\* read_card returns None and write_card returns false, and no exception
\* leaves the method.
C20_FaultsContained ==
    \A i \in DOMAIN calls :
        LET outcome == calls[i].script[1]
            r == calls[i].ret
        IN  /\ r.driver_calls = 1
            /\ IsException(outcome.raised) =>
                  /\ r.raised = "none"
                  /\ calls[i].op = "read_card" => r.result = None
                  /\ calls[i].op = "write_card" => r.result = FALSE
            /\ outcome.raised = "none" =>
                  /\ r.raised = "none"
                  /\ calls[i].op = "read_card" =>
                        r.result = <<outcome.id, outcome.text>>
                  /\ calls[i].op = "write_card" => r.result = TRUE

C20_Witness ==
    /\ Len(calls) = 2
    /\ calls[1].op = "read_card"
    /\ calls[1].script = <<DriverRaises("OSError"), DriverReturns(1, <<"a">>)>>
    /\ calls[1].ret.result = None
    /\ calls[2].op = "write_card"
    /\ calls[2].script[1] = DriverRaises("RuntimeError")
    /\ calls[2].ret.result = FALSE
    /\ calls[2].ret.raised = "none"

(***************************************************************************)
(* lcd.py: the LCD1602 on six GPIO pins.  A call on the display yields     *)
(* the exception that leaves it ("none" when it returns) and bus, the      *)
(* GPIO.output(pin, level) calls it made, in order, as <<pin, level>>.     *)
(***************************************************************************)
LOW == 0
HIGH == 1

\* the LCD1602 as __init__ leaves it, with these data pins
Lcd1602(pins_db) ==
    [pin_rs |-> 27, pin_e |-> 22, pins_db |-> pins_db, numlines |-> 2,
     row_offsets |-> <<0, 64, 20, 84>>]

\* the default data pins, and data pins given in rising order
Lcds == {Lcd1602(<<25, 24, 23, 18>>), Lcd1602(<<5, 6, 13, 19>>)}

\* ord(char) of the characters displayed
Ord(char) ==
    CASE char = "\n" -> 10
      [] char = " " -> 32
      [] char = "1" -> 49
      [] char = ":" -> 58
      [] char = "A" -> 65
      [] char = "a" -> 97
      [] char = "~" -> 126

RECURSIVE Bin(_)
\* bin(n)[2:] of n >= 0
Bin(n) == IF n < 2 THEN <<Digit(n)>> ELSE Bin(n \div 2) \o <<Digit(n % 2)>>

RECURSIVE ZFill(_, _)
\* str.zfill(width)
ZFill(str, width) == IF Len(str) >= width THEN str ELSE ZFill(<<"0">> \o str, width)

\* seq[::-1]
Reversed(seq) == [i \in DOMAIN seq |-> seq[Len(seq) + 1 - i]]

\* for pin in pins_db: GPIO.output(pin, LOW)
ClearData(self) == [i \in DOMAIN self.pins_db |-> <<self.pins_db[i], LOW>>]

RECURSIVE SetData(_, _, _, _)
\* for i in range(from, to): if bits_str[i] == "1":
\*     GPIO.output(pins_db[::-1][i - from], HIGH)
SetData(self, bits_str, i, from) ==
    IF i >= from + 4 THEN <<>>
    ELSE (IF bits_str[i + 1] = "1"
          THEN <<<<Reversed(self.pins_db)[i - from + 1], HIGH>>>>
          ELSE <<>>)
         \o SetData(self, bits_str, i + 1, from)

_pulse_enable(self) == <<<<self.pin_e, LOW>>, <<self.pin_e, HIGH>>, <<self.pin_e, LOW>>>>

Level(char_mode) == IF char_mode THEN HIGH ELSE LOW

_write4bits_lowfirst(self, bits, char_mode) ==
    LET bits_str == ZFill(Bin(bits), 8)
    IN  <<<<self.pin_rs, Level(char_mode)>>>>
        \o ClearData(self) \o SetData(self, bits_str, 4, 4) \o _pulse_enable(self)
        \o ClearData(self) \o SetData(self, bits_str, 0, 0) \o _pulse_enable(self)

\* _write4bits(bits, char_mode=...)
_write4bits(self, bits, char_mode) ==
    LET bits_str == ZFill(Bin(bits), 8)
    IN  <<<<self.pin_rs, Level(char_mode)>>>>
        \o ClearData(self) \o SetData(self, bits_str, 0, 0) \o _pulse_enable(self)
        \o ClearData(self) \o SetData(self, bits_str, 4, 4) \o _pulse_enable(self)

RECURSIVE message_glyph(_, _)
message_glyph(self, text) ==
    IF text = <<>> THEN <<>>
    ELSE _write4bits(self, Ord(Head(text)), TRUE) \o message_glyph(self, Tail(text))

RECURSIVE message(_, _)
\* message(text): 0xC0 for a newline, the character as data otherwise
message(self, text) ==
    IF text = <<>> THEN <<>>
    ELSE (IF Head(text) = "\n" THEN _write4bits(self, 192, FALSE)
          ELSE _write4bits(self, Ord(Head(text)), TRUE))
         \o message(self, Tail(text))

RECURSIVE BitOr(_, _)
\* a | b of a, b >= 0
BitOr(a, b) ==
    IF a = 0 THEN b ELSE IF b = 0 THEN a
    ELSE 2 * BitOr(a \div 2, b \div 2) + (IF a % 2 = 1 \/ b % 2 = 1 THEN 1 ELSE 0)

\* set_cursor(col, row): rows from numlines up become numlines - 1; a
\* negative row indexes row_offsets from its end, and raises IndexError
\* below -len(row_offsets)
set_cursor(self, col, row) ==
    LET r == IF row >= self.numlines THEN self.numlines - 1 ELSE row
        n == Len(self.row_offsets)
    IN  IF r < 0 - n
        THEN [raised |-> "IndexError", bus |-> <<>>]
        ELSE [raised |-> "none",
              bus |-> _write4bits(self,
                          BitOr(128, col + self.row_offsets[(IF r < 0 THEN r + n ELSE r) + 1]),
                          FALSE)]

\* every 8-bit value
Bytes == 0..255

\* texts given to message
Messages ==
    {<<>>, <<"A">>, <<"\n">>, <<"a", "\n", "1">>,
     <<"A", ":", " ", "1", "\n", "~", "a">>}

\* columns and rows given to set_cursor
Cols == {0, 5, 15}
Rows == {0 - 5, 0 - 1, 0, 1, 2, 7}

lcdFrame ==
    UNCHANGED <<pc, card_data, lcd, servo_lock, gpio_open, iter, cleanup_log,
                exit_cause, pending, empty_polls, servo_at_poll, env_file,
                enrolled, ret,
                procs, grants_odd>>

\* one call on the display is made and recorded
LcdCalled(op, self, bits, char_mode, text, col, row, result) ==
    calls' = <<[op |-> op, self |-> self, bits |-> bits, char_mode |-> char_mode,
                text |-> text, col |-> col, row |-> row, ret |-> result]>>

CallWrite4bits(self, bits, char_mode) ==
    /\ calls = <<>>
    /\ LcdCalled("_write4bits", self, bits, char_mode, <<>>, 0, 0,
                 [raised |-> "none", bus |-> _write4bits(self, bits, char_mode)])
    /\ lcdFrame

CallMessage(self, text) ==
    /\ calls = <<>>
    /\ LcdCalled("message", self, 0, FALSE, text, 0, 0,
                 [raised |-> "none", bus |-> message(self, text)])
    /\ lcdFrame

CallSetCursor(self, col, row) ==
    /\ calls = <<>>
    /\ LcdCalled("set_cursor", self, 0, FALSE, <<>>, col, row,
                 set_cursor(self, col, row))
    /\ lcdFrame

InitLcd ==
    /\ LoopIdle
    /\ env_file = Absent
    /\ enrolled = <<>>
    /\ ret = NoRet

NextLcd ==
    \/ \E self \in Lcds, bits \in Bytes, char_mode \in BOOLEAN :
          CallWrite4bits(self, bits, char_mode)
    \/ \E self \in Lcds, text \in Messages : CallMessage(self, text)
    \/ \E self \in Lcds, col \in Cols, row \in Rows : CallSetCursor(self, col, row)

SpecLcd == InitLcd /\ [][NextLcd]_vars

(***************************************************************************)
(* Claims about the display driver.  What the controller receives is read  *)
(* off the bus: it latches register select and the four data lines at      *)
(* each falling edge of the enable line.                                   *)
(***************************************************************************)
LcdPins(self) ==
    {self.pin_rs, self.pin_e} \cup {self.pins_db[i] : i \in DOMAIN self.pins_db}

\* pin levels before a call: enable low, the other lines all at this level
LevelsBefore(self, level) ==
    [pin \in LcdPins(self) |-> IF pin = self.pin_e THEN LOW ELSE level]

\* the nibble on the data lines, pins_db[1] the least significant line
Nibble(self, levels) ==
    levels[self.pins_db[1]] + 2 * levels[self.pins_db[2]]
    + 4 * levels[self.pins_db[3]] + 8 * levels[self.pins_db[4]]

\* the level of this pin after the first i events of the bus
LevelAt(bus, levels, pin, i) ==
    LET on == {j \in 1..i : bus[j][1] = pin}
    IN  IF on = {} THEN levels[pin]
        ELSE bus[CHOOSE j \in on : \A k \in on : k <= j][2]

\* the pin levels at each falling edge of the enable line
Latched(self, bus, levels) ==
    LET falls == SelectSeq([i \in 1..Len(bus) |-> i],
                           LAMBDA i : /\ bus[i] = <<self.pin_e, LOW>>
                                      /\ LevelAt(bus, levels, self.pin_e, i - 1) = HIGH)
    IN  [k \in 1..Len(falls) |->
            [pin \in LcdPins(self) |-> LevelAt(bus, levels, pin, falls[k])]]

\* the <<register select, value>> pairs received, two latches to a value
Received(self, latched) ==
    [k \in 1..(Len(latched) \div 2) |->
        <<latched[2 * k - 1][self.pin_rs],
          16 * Nibble(self, latched[2 * k - 1]) + Nibble(self, latched[2 * k])>>]

LastCall == calls[Len(calls)]

\* C21: message(text) makes the controller receive one value per character,
\* in the order of the text: for a newline the command that sets the address
\* of the start of the second line, with register select low, and for any
\* other character its code, with register select high.  The characters
\* are those of the display's 8-bit character set.
C21_MessageNewline ==
    (calls # <<>> /\ LastCall.op = "message") =>
        \A level \in {LOW, HIGH} :
            LET self == LastCall.self
                text == LastCall.text
                latched == Latched(self, LastCall.ret.bus, LevelsBefore(self, level))
            IN  /\ Len(latched) = 2 * Len(text)
                /\ Received(self, latched) =
                      [i \in 1..Len(text) |->
                          IF text[i] = "\n"
                          THEN <<LOW, 128 + self.row_offsets[2]>>
                          ELSE <<HIGH, Ord(text[i])>>]

C21_Witness ==
    /\ calls # <<>>
    /\ LastCall.op = "message"
    /\ LastCall.text = <<"A", ":", " ", "1", "\n", "~", "a">>
    /\ LastCall.self.pins_db = <<25, 24, 23, 18>>
    /\ Len(LastCall.ret.bus) > 0

\* C22: set_cursor(col, row), for every integer row, returns having sent
\* exactly one command, the set-address command of col + row_offsets[r],
\* where r is a supported line: row itself when it is one, the last line
\* when row is beyond it.
C22_CursorClamped ==
    (calls # <<>> /\ LastCall.op = "set_cursor") =>
        LET self == LastCall.self
            row == LastCall.row
            latched == Latched(self, LastCall.ret.bus, LevelsBefore(self, LOW))
        IN  /\ LastCall.ret.raised = "none"
            /\ Len(latched) = 2
            /\ \E r \in 0..(self.numlines - 1) :
                  /\ row \in 0..(self.numlines - 1) => r = row
                  /\ row >= self.numlines => r = self.numlines - 1
                  /\ Received(self, latched) =
                        <<<<LOW, 128 + LastCall.col + self.row_offsets[r + 1]>>>>

\* the events of the bus on this pin
OnPin(bus, pin) == SelectSeq(bus, LAMBDA ev : ev[1] = pin)

\* C26: an 8-bit value goes out as two nibbles, high nibble first: register
\* select is written once, first, low for a command and high for character
\* data; the enable line is written low, high, low once per nibble; and at
\* each of the two pulses the data lines hold exactly the bits of the
\* nibble, the most significant on the highest data line (D7, the last pin
\* of pins_db) and the least significant on the lowest (D4, the first),
\* whatever the lines held before.
C26_TwoNibbles ==
    (calls # <<>> /\ LastCall.op = "_write4bits") =>
        \A level \in {LOW, HIGH} :
            LET self == LastCall.self
                bits == LastCall.bits
                bus == LastCall.ret.bus
                latched == Latched(self, bus, LevelsBefore(self, level))
                rs == Level(LastCall.char_mode)
            IN  /\ bus[1] = <<self.pin_rs, rs>>
                /\ Len(OnPin(bus, self.pin_rs)) = 1
                /\ OnPin(bus, self.pin_e) = _pulse_enable(self) \o _pulse_enable(self)
                /\ Len(latched) = 2
                /\ latched[1][self.pin_rs] = rs /\ latched[2][self.pin_rs] = rs
                /\ Nibble(self, latched[1]) = bits \div 16
                /\ Nibble(self, latched[2]) = bits % 16
                /\ bus[Len(bus)] = <<self.pin_e, LOW>>

C26_Witness ==
    /\ calls # <<>>
    /\ LastCall.op = "_write4bits"
    /\ LastCall.bits = 165
    /\ LastCall.char_mode
    /\ LastCall.self.pins_db = <<25, 24, 23, 18>>
    /\ Len(LastCall.ret.bus) = 19

(***************************************************************************)
(* rfid.py: write(), the interactive card writer.  pc is the line of       *)
(* rfid.py about to execute; calls holds one record per prompt round: the  *)
(* line typed, the text after strip(), and ops, the calls the round made   *)
(* on the reader and on the authentication module.                         *)
(***************************************************************************)
MaxRounds == 2

WriteInput == 89
WriteCleanup == 110
WriteDone == 111

\* str.lower() of a character typed
Lower(char) == IF char = "Q" THEN "q" ELSE char

\* ["quit", "q", "exit"]
QuitWords == {<<"q", "u", "i", "t">>, <<"q">>, <<"e", "x", "i", "t">>}

\* lines typed at the prompt
Typed == {<<>>, <<" ">>, <<"a">>, <<" ", "a", " ">>, <<"a", "1">>, <<"q">>, <<"Q">>}

\* what the driver does when the round calls it
RoundScripts ==
    {<<outcome, DriverReturns(1, <<"a">>)>> : outcome \in DriverOutcomes}

writeFrame ==
    UNCHANGED <<card_data, lcd, servo_lock, iter, cleanup_log, exit_cause,
                pending, empty_polls, servo_at_poll, env_file, enrolled, ret,
                procs, grants_odd>>

\* the calls one round makes for the stripped text (lines 94-103)
RoundOps(text, script) ==
    IF text # <<>>
    THEN <<[op |-> "write_card", text |-> text, ret |-> write_card(text, script)]>>
    ELSE <<>>

\* one pass of the while loop: lines 89-105
Round(line, script) ==
    /\ pc = WriteInput
    /\ Len(calls) < MaxRounds
    /\ LET text == Strip(line)
           quit == [i \in DOMAIN text |-> Lower(text[i])] \in QuitWords
           ops == IF quit THEN <<>> ELSE RoundOps(text, script)
           raised == IF ops = <<>> THEN "none" ELSE ops[Len(ops)].ret.raised
       IN  /\ calls' = Append(calls, [line |-> line, text |-> text, quit |-> quit,
                                      ops |-> ops])
           /\ pc' = IF quit \/ raised # "none" THEN WriteCleanup ELSE WriteInput
    /\ UNCHANGED gpio_open
    /\ writeFrame

\* Ctrl-C at the prompt: except KeyboardInterrupt, lines 107-108
InterruptPrompt ==
    /\ pc = WriteInput
    /\ pc' = WriteCleanup
    /\ UNCHANGED <<calls, gpio_open>>
    /\ writeFrame

\* finally: rfid_reader.cleanup() is GPIO.cleanup()
ReaderCleanup ==
    /\ pc = WriteCleanup
    /\ gpio_open' = FALSE
    /\ pc' = WriteDone
    /\ UNCHANGED calls
    /\ writeFrame

InitWrite ==
    /\ pc = WriteInput /\ card_data = None /\ lcd = NoLcd
    /\ servo_lock = NoServo /\ gpio_open = TRUE
    /\ iter = <<>> /\ cleanup_log = <<>>
    /\ exit_cause = "none" /\ pending = "none" /\ empty_polls = 0
    /\ servo_at_poll = NoServo
    /\ env_file \in LoopFiles
    /\ enrolled = <<>>
    /\ ret = NoRet
    /\ calls = <<>>
    /\ procs = NoProcs
    /\ grants_odd = FALSE

NextWrite ==
    \/ \E line \in Typed, script \in RoundScripts : Round(line, script)
    \/ InterruptPrompt
    \/ ReaderCleanup

SpecWrite == InitWrite /\ [][NextWrite]_vars

(***************************************************************************)
(* Claims about interactive enrollment.                                    *)
(***************************************************************************)
\* the names of the calls a round made, in order
OpNames(round) == [i \in DOMAIN round.ops |-> round.ops[i].op]

EnrollmentSteps == <<"read_card", "save_authorized_card", "write_card">>

\* C23: a round with an empty password makes no call on the card; a round
\* with a password first reads the card for its identifier, then persists
\* the password hash, then writes the password to the card, stopping at the
\* first of these steps that fails; and unless the round ends the session
\* the prompt follows.
C23_EnrollmentOrder ==
    \A i \in DOMAIN calls :
        LET round == calls[i]
        IN  /\ round.text = <<>> => round.ops = <<>>
            /\ (round.text # <<>> /\ ~round.quit) =>
                  /\ round.ops # <<>>
                  /\ OpNames(round) = SubSeq(EnrollmentSteps, 1, Len(round.ops))

(***************************************************************************)
(* auth.py with the lock and an enrollment running as two processes on     *)
(* one .env file.  save_password_to_env reads the file, truncates it with  *)
(* open(env_file, "w") and writes the new lines when the file is closed;   *)
(* load_password_from_env opens the file and reads what is there from its  *)
(* position until a read returns nothing.                                  *)
(***************************************************************************)
\* the .env file the two processes start with: none, one written by
\* save_password_to_env, and one whose salt line is missing
RaceFiles ==
    {Absent,
     save_password_to_env(<<"a">>, <<"2", "1">>, Absent),
     File(<<Comment, Comment, Blank,
            <<HASH, hash_password(<<"a">>, <<"2", "1">>)[1]>>>>)}

raceFrame ==
    UNCHANGED <<pc, card_data, lcd, servo_lock, gpio_open, iter, cleanup_log,
                exit_cause, pending, empty_polls, servo_at_poll, calls,
                grants_odd>>

\* save_password_to_env, lines 67-79: hash, read the existing content
SaveRead(password) ==
    /\ procs.w_pc = "idle"
    /\ Len(enrolled) < MaxEnrollments
    /\ \E salt \in generate_salt :
          procs' = [procs EXCEPT
                       !.w_pc = "read",
                       !.w_lines = save_password_to_env(password, salt, env_file).lines]
    /\ enrolled' = Append(enrolled, <<1, password>>)
    /\ UNCHANGED <<env_file, ret>>
    /\ raceFrame

\* line 82: open(env_file, "w") truncates the file
SaveOpen ==
    /\ procs.w_pc = "read"
    /\ env_file' = File(<<>>)
    /\ procs' = [procs EXCEPT !.w_pc = "open"]
    /\ UNCHANGED <<enrolled, ret>>
    /\ raceFrame

\* lines 83-86: the lines written reach the file when it is closed
SaveClose ==
    /\ procs.w_pc = "open"
    /\ env_file' = File(procs.w_lines)
    /\ procs' = [procs EXCEPT !.w_pc = "idle", !.w_lines = <<>>]
    /\ UNCHANGED <<enrolled, ret>>
    /\ raceFrame

\* verify_card_password with the credentials load_password_from_env found
Verified(password, password_hash, password_salt) ==
    IF password_hash # <<>> /\ password_salt # <<>>
    THEN [NoRet EXCEPT !.op = "authorize", !.password = password,
                       !.stored_hash = password_hash, !.salt = password_salt,
                       !.result = verify_password(password, password_hash,
                                                  password_salt)]
    ELSE [NoRet EXCEPT !.op = "authorize", !.password = password,
                       !.result = FALSE]

\* verify_card_password -> load_password_from_env, lines 99-108: the
\* existence test and open(env_file)
LoadOpen(password) ==
    /\ procs.r_pc = "idle"
    /\ IF env_file.exists
       THEN /\ procs' = [procs EXCEPT !.r_pc = "open", !.r_password = password,
                                      !.r_off = 0, !.r_hash = None,
                                      !.r_salt = None]
            /\ UNCHANGED ret
       ELSE /\ ret' = Verified(password, None, None)
            /\ UNCHANGED procs
    /\ UNCHANGED <<env_file, enrolled>>
    /\ raceFrame

\* lines 109-114: one read of the lines now in the file past the position
LoadRead ==
    /\ procs.r_pc = "open"
    /\ Len(env_file.lines) > procs.r_off
    /\ LET chunk == SubSeq(env_file.lines, procs.r_off + 1, Len(env_file.lines))
       IN  procs' = [procs EXCEPT
                        !.r_off = Len(env_file.lines),
                        !.r_hash = LastValue(chunk, HASH, procs.r_hash),
                        !.r_salt = LastValue(chunk, SALT, procs.r_salt)]
    /\ UNCHANGED <<env_file, enrolled, ret>>
    /\ raceFrame

\* a read returns nothing: the loop ends, lines 116-118 and 135-140
LoadEnd ==
    /\ procs.r_pc = "open"
    /\ Len(env_file.lines) <= procs.r_off
    /\ ret' = Verified(procs.r_password, procs.r_hash, procs.r_salt)
    /\ procs' = [procs EXCEPT !.r_pc = "idle", !.r_password = <<>>, !.r_off = 0,
                              !.r_hash = None, !.r_salt = None]
    /\ UNCHANGED <<env_file, enrolled>>
    /\ raceFrame

InitRace ==
    /\ LoopIdle
    /\ env_file \in RaceFiles
    /\ enrolled = <<>>
    /\ ret = NoRet

NextRace ==
    \/ \E password \in Passwords : SaveRead(password)
    \/ SaveOpen
    \/ SaveClose
    \/ \E password \in Passwords : LoadOpen(password)
    \/ LoadRead
    \/ LoadEnd

SpecRace == InitRace /\ [][NextRace]_vars

====
